---- MODULE Spec2Model ----
(***************************************************************************)
(* A model of prowl.py: the command line client that either stores a       *)
(* default API key in a JSON settings file or posts one notification.      *)
(*                                                                         *)
(* Strings are sequences of one-character strings, so that the regular     *)
(* expression of api_key_type, the "0" workaround and the JSON text of the *)
(* settings file are computed character by character.  An optional value   *)
(* (Python's None or a value) is the empty tuple or a one-element tuple.   *)
(***************************************************************************)
EXTENDS Integers, Sequences, FiniteSets, TLC

VARIABLES
    pc,        \* per process: the statement the invocation is at
    argv,      \* per process: the command line as the user typed it
    args,      \* per process: the namespace parse_args returned
    values,    \* per process: Settings._values (None or the mapping)
    data,      \* per process: write_file's data argument
    fd,        \* per process: inode of the file object open in write_file (0: none)
    buffered,  \* per process: file.write(data) has filled the file object's buffer
    err,       \* per process: how the invocation ended ("" while running / success)
    nPost,     \* per process: POST requests made by this invocation
    nSet,      \* per process: Settings mutations made by this invocation
    request,   \* per process: the form fields of the POST (None before it)
    fs,        \* the file system: the parent directory, directory entries, inodes
    lastOp     \* the last Settings call made directly on the store (store specification)

vars == <<pc, argv, args, values, data, fd, buffered, err, nPost, nSet, request, fs, lastOp>>

----------------------------------------------------------------------------
(* Bounds of the model *)

\* priorities the user may type range over -MaxPriorityInput..MaxPriorityInput
MaxPriorityInput == 3

\* integers stored as JSON values range over -MaxStoredInt..MaxStoredInt
MaxStoredInt == 1

----------------------------------------------------------------------------
(* Optional values and strings *)

None == <<>>
Some(x) == <<x>>
IsNone(o) == o = <<>>
Get(o) == o[1]

\* the string of n characters c
Rep(c, n) == [i \in 1..n |-> c]

\* number of characters of the key in '[0-9a-f]{40}$'
KeyLen == 40

HexChars == {"0", "1", "2", "3", "4", "5", "6", "7", "8", "9",
             "a", "b", "c", "d", "e", "f"}

Digits == <<"0", "1", "2", "3", "4", "5", "6", "7", "8", "9">>

----------------------------------------------------------------------------
(* api_key_type: re.match('[0-9a-f]{40}$', value) *)

\* [0-9a-f]{n} matched from the start of value (re.match anchors at position 0)
MatchHexRun(value, n) ==
    /\ Len(value) >= n
    /\ \A i \in 1..n : value[i] \in HexChars

\* '$' without re.MULTILINE: at the end of the string, or just before a
\* newline that is the last character of the string.  pos is the index of
\* the next unread character.
AtDollar(value, pos) ==
    \/ pos = Len(value) + 1
    \/ pos = Len(value) /\ value[pos] = "\n"

ReMatchApiKey(value) ==
    MatchHexRun(value, KeyLen) /\ AtDollar(value, KeyLen + 1)

\* returns the value, or raises UserError('Invalid API key specified.')
api_key_type(value) ==
    IF ~ReMatchApiKey(value)
    THEN [err |-> "InvalidApiKey", value |-> value]
    ELSE [err |-> "", value |-> value]

\* the workaround for the API not accepting "0"
api_argument_type(value) ==
    IF value = <<"0">> THEN value \o <<" ">> ELSE value

\* argparse's default type for an option without type= : the string as typed
\* (url_type_rewriting: --url declared with type=api_argument_type)
url_type_rewriting(value) == api_argument_type(value)

url_type(value) == value

----------------------------------------------------------------------------
(* JSON: json.dumps of the mapping and json.loads of the file's text.      *)
(* A JSON value is a string, an integer, a boolean or null; a mapping is   *)
(* the sequence of its items in insertion order, as a Python dict is.      *)

JStr(s) == [t |-> "str", s |-> s, n |-> 0]
JInt(n) == [t |-> "int", s |-> <<>>, n |-> n]
JBool(b) == [t |-> "bool", s |-> <<>>, n |-> IF b THEN 1 ELSE 0]
JNull == [t |-> "null", s |-> <<>>, n |-> 0]

Item(k, v) == [k |-> k, v |-> v]

DictHas(d, key) == \E i \in 1..Len(d) : d[i].k = key

DictIndex(d, key) == CHOOSE i \in 1..Len(d) : d[i].k = key

\* dict.get(key, default)
DictGet(d, key, default) ==
    IF DictHas(d, key) THEN d[DictIndex(d, key)].v ELSE default

\* d[key] = value: an existing key keeps its position, a new one is appended
DictSet(d, key, value) ==
    IF DictHas(d, key)
    THEN [d EXCEPT ![DictIndex(d, key)] = Item(key, value)]
    ELSE Append(d, Item(key, value))

\* ''.join(ss[lo..hi])
RECURSIVE ConcatRange(_, _, _)
ConcatRange(ss, lo, hi) ==
    IF lo > hi THEN <<>>
    ELSE IF lo = hi THEN ss[lo]
    ELSE ConcatRange(ss, lo, (lo + hi) \div 2) \o ConcatRange(ss, ((lo + hi) \div 2) + 1, hi)

Concat(ss) == ConcatRange(ss, 1, Len(ss))

\* py_encode_basestring_ascii: the escapes of the characters the model uses
\* (EscapeCharRaw: a serializer that writes every character as it is)
EscapeCharRaw(c) == <<c>>

EscapeChar(c) ==
    IF c = "\"" THEN <<"\\", "\"">>
    ELSE IF c = "\\" THEN <<"\\", "\\">>
    ELSE IF c = "\n" THEN <<"\\", "n">>
    ELSE <<c>>

DumpStr(s) ==
    <<"\"">> \o Concat([i \in 1..Len(s) |-> EscapeChar(s[i])]) \o <<"\"">>

RECURSIVE DumpNat(_)
DumpNat(n) ==
    IF n < 10 THEN <<Digits[n + 1]>>
    ELSE DumpNat(n \div 10) \o <<Digits[(n % 10) + 1]>>

DumpInt(n) == IF n < 0 THEN <<"-">> \o DumpNat(-n) ELSE DumpNat(n)

DumpValue(v) ==
    CASE v.t = "str" -> DumpStr(v.s)
      [] v.t = "int" -> DumpInt(v.n)
      [] v.t = "bool" -> IF v.n = 1 THEN <<"t", "r", "u", "e">>
                         ELSE <<"f", "a", "l", "s", "e">>
      [] v.t = "null" -> <<"n", "u", "l", "l">>

DumpItem(it) == DumpStr(it.k) \o <<":", " ">> \o DumpValue(it.v)

\* json.dumps(mapping): '{' items joined by ', ' '}'
dumps(d) ==
    <<"{">>
    \o Concat([i \in 1..Len(d) |->
                 IF i = 1 THEN DumpItem(d[i]) ELSE <<",", " ">> \o DumpItem(d[i])])
    \o <<"}">>

Ws == {" ", "\n", "\t", "\r"}

RECURSIVE SkipWs(_, _)
SkipWs(t, i) == IF i <= Len(t) /\ t[i] \in Ws THEN SkipWs(t, i + 1) ELSE i

CharAt(t, i) == IF i >= 1 /\ i <= Len(t) THEN t[i] ELSE ""

ParseFail == [ok |-> FALSE, val |-> JNull, next |-> 0]
ParseOk(v, n) == [ok |-> TRUE, val |-> v, next |-> n]

\* the characters that end a chunk of a JSON string: the quote, the
\* backslash and the control characters (STRINGCHUNK of json.decoder)
ChunkEnd == {"\"", "\\", "\n", "\t", "\r"}

\* the index of the first chunk-ending character from i on, Len(t) + 1 if none
NextChunkEnd(t, i) ==
    CHOOSE j \in i..(Len(t) + 1) :
        /\ j = Len(t) + 1 \/ t[j] \in ChunkEnd
        /\ \A k \in i..(j - 1) : t[k] \notin ChunkEnd

\* the body of a JSON string, from the character after the opening quote
\* (py_scanstring): a chunk of plain characters, then what ended it
RECURSIVE ScanString(_, _, _)

ScanTerminator(t, j, acc) ==
    LET c == CharAt(t, j)
        e == CharAt(t, j + 1)
    IN  IF c = "" THEN ParseFail
        ELSE IF c = "\"" THEN ParseOk(JStr(acc), j + 1)
        ELSE IF c = "\\" THEN
            IF e = "\"" \/ e = "\\" \/ e = "/" THEN ScanString(t, j + 2, Append(acc, e))
            ELSE IF e = "n" THEN ScanString(t, j + 2, Append(acc, "\n"))
            ELSE IF e = "t" THEN ScanString(t, j + 2, Append(acc, "\t"))
            ELSE IF e = "r" THEN ScanString(t, j + 2, Append(acc, "\r"))
            ELSE ParseFail
        ELSE ParseFail  \* strict: no raw control character

ScanChunk(t, i, j, acc) == ScanTerminator(t, j, acc \o SubSeq(t, i, j - 1))

ScanString(t, i, acc) == ScanChunk(t, i, NextChunkEnd(t, i), acc)

DigitValue(c) == CHOOSE n \in 0..9 : Digits[n + 1] = c
IsDigit(c) == \E n \in 0..9 : Digits[n + 1] = c

RECURSIVE ScanDigits(_, _, _)
ScanDigits(t, i, acc) ==
    IF IsDigit(CharAt(t, i))
    THEN ScanDigits(t, i + 1, acc * 10 + DigitValue(t[i]))
    ELSE [n |-> acc, next |-> i]

\* -?(0|[1-9][0-9]*); a fraction or an exponent would make a float, which the model has not
IntEnd(t, neg, r) ==
    IF CharAt(t, r.next) \in {".", "e", "E"} THEN ParseFail
    ELSE ParseOk(JInt(IF neg THEN -r.n ELSE r.n), r.next)

IntDigits(t, neg, j) ==
    IF ~IsDigit(CharAt(t, j)) THEN ParseFail
    ELSE IntEnd(t, neg, IF CharAt(t, j) = "0" THEN [n |-> 0, next |-> j + 1]
                        ELSE ScanDigits(t, j, 0))

ParseInt(t, i) ==
    IF CharAt(t, i) = "-" THEN IntDigits(t, TRUE, i + 1) ELSE IntDigits(t, FALSE, i)

ParseLiteral(t, i, lit, v) ==
    IF i + Len(lit) - 1 <= Len(t) /\ SubSeq(t, i, i + Len(lit) - 1) = lit
    THEN ParseOk(v, i + Len(lit)) ELSE ParseFail

ParseValue(t, i) ==
    LET c == CharAt(t, i)
    IN  IF c = "\"" THEN ScanString(t, i + 1, <<>>)
        ELSE IF c = "n" THEN ParseLiteral(t, i, <<"n", "u", "l", "l">>, JNull)
        ELSE IF c = "t" THEN ParseLiteral(t, i, <<"t", "r", "u", "e">>, JBool(TRUE))
        ELSE IF c = "f" THEN ParseLiteral(t, i, <<"f", "a", "l", "s", "e">>, JBool(FALSE))
        ELSE IF c = "-" \/ IsDigit(c) THEN ParseInt(t, i)
        ELSE ParseFail

LoadFail == [ok |-> FALSE, d |-> <<>>, next |-> 0]

\* the members of an object, from the first character of a key: the key,
\* the colon, the value, then a comma and the next member or the closing brace
RECURSIVE ParseMembers(_, _, _)

MemberEnd(t, d, sep) ==
    IF CharAt(t, sep) = "," THEN ParseMembers(t, SkipWs(t, sep + 1), d)
    ELSE IF CharAt(t, sep) = "}" THEN [ok |-> TRUE, d |-> d, next |-> sep + 1]
    ELSE LoadFail

MemberValue(t, acc, key, val) ==
    IF ~val.ok THEN LoadFail
    ELSE MemberEnd(t, DictSet(acc, key, val.val), SkipWs(t, val.next))

MemberColon(t, acc, key, colon) ==
    IF CharAt(t, colon) # ":" THEN LoadFail
    ELSE MemberValue(t, acc, key, ParseValue(t, SkipWs(t, colon + 1)))

MemberKey(t, acc, key) ==
    IF ~key.ok THEN LoadFail
    ELSE MemberColon(t, acc, key.val.s, SkipWs(t, key.next))

ParseMembers(t, i, acc) ==
    IF CharAt(t, i) # "\"" THEN LoadFail
    ELSE MemberKey(t, acc, ScanString(t, i + 1, <<>>))

ObjectBody(t, j) ==
    IF CharAt(t, j) = "}" THEN [ok |-> TRUE, d |-> <<>>, next |-> j + 1]
    ELSE ParseMembers(t, j, <<>>)

ParseObject(t, i) ==
    IF CharAt(t, i) # "{" THEN LoadFail ELSE ObjectBody(t, SkipWs(t, i + 1))

ObjectOnly(t, r) ==
    IF r.ok /\ SkipWs(t, r.next) = Len(t) + 1
    THEN [ok |-> TRUE, d |-> r.d]
    ELSE [ok |-> FALSE, d |-> <<>>]

\* json.loads(text) of a text that must hold one object and nothing after it
loads(t) == ObjectOnly(t, ParseObject(t, SkipWs(t, 1)))

----------------------------------------------------------------------------
(* The file system under the settings path: whether the parent directory   *)
(* exists, the directory entries (path -> inode, 0 when absent) and the    *)
(* content of each inode.  A file object open for writing refers to an     *)
(* inode, not to a path, so a rename moves what a writer is writing to.    *)

Procs == {1, 2}

\* os.path.join(os.path.expanduser('~'), 'opt/etc/prowl.json')
SettingsPath == "~/opt/etc/prowl.json"

\* write_file's temp_path = path + '~'
\* (temp_path_in_place: a write_file that opens the settings file itself)
temp_path_in_place(path) == path

temp_path(path) == path \o "~"

Paths == {SettingsPath, temp_path(SettingsPath)}

InodeIds == 1..(Cardinality(Paths) + Cardinality(Procs))

EmptyFs ==
    [dir |-> FALSE, names |-> [q \in Paths |-> 0], inodes |-> [i \in InodeIds |-> <<>>]]

\* os.path.exists(path)
FsExists(f, path) == f.names[path] # 0

\* the content read_file(path) returns
FsRead(f, path) == f.inodes[f.names[path]]

UsedInodes(f, fds) == {f.names[q] : q \in Paths} \cup {fds[q] : q \in Procs}

FreeInode(f, fds) ==
    CHOOSE i \in InodeIds :
        /\ i \notin UsedInodes(f, fds)
        /\ \A j \in InodeIds : j \notin UsedInodes(f, fds) => i <= j

\* an inode no directory entry and no open file refers to is gone
Reclaim(f, fds) ==
    [f EXCEPT !.inodes =
        [i \in InodeIds |-> IF i \in UsedInodes(f, fds) THEN f.inodes[i] ELSE <<>>]]

\* os.makedirs(dir)
FsMakedirs(f) == [f EXCEPT !.dir = TRUE]

\* open(path, 'wb'): truncates the file the path names, or creates it
FsOpenWb(f, path, fds) ==
    LET i == IF FsExists(f, path) THEN f.names[path] ELSE FreeInode(f, fds)
    IN  [fs |-> [f EXCEPT !.names[path] = i, !.inodes[i] = <<>>], fd |-> i]

\* the write of the buffer at offset 0 of the open file: bytes beyond it stay
FsWrite(f, i, bytes) ==
    [f EXCEPT !.inodes[i] =
        bytes \o SubSeq(f.inodes[i], Len(bytes) + 1, Len(f.inodes[i]))]

\* os.rename(from, to) of an existing from: atomic replacement of the entry
FsRename(f, from, to) ==
    IF from = to THEN f
    ELSE [f EXCEPT !.names[to] = f.names[from], !.names[from] = 0]

----------------------------------------------------------------------------
(* Settings *)

Loaded(vals, r) ==
    IF r.ok THEN [err |-> "", values |-> Some(r.d)]
    ELSE [err |-> "JSONDecodeError", values |-> vals]

\* Settings._load_values: [err, values]
load_values(vals, f, path) ==
    IF ~IsNone(vals) THEN [err |-> "", values |-> vals]
    ELSE IF FsExists(f, path) THEN Loaded(vals, loads(FsRead(f, path)))
    ELSE [err |-> "", values |-> Some(<<>>)]

WriteOpened(o, path, bytes, fds) ==
    Reclaim(FsRename(FsWrite(o.fs, o.fd, bytes), temp_path(path), path), fds)

\* write_file run without another process in between
write_file(f, path, bytes, fds) ==
    WriteOpened(FsOpenWb(IF ~f.dir THEN FsMakedirs(f) ELSE f, temp_path(path), fds),
                path, bytes, fds)

GetLoaded(l, key, default) ==
    IF l.err # "" THEN [err |-> l.err, values |-> l.values, ret |-> default]
    ELSE [err |-> "", values |-> l.values, ret |-> DictGet(Get(l.values), key, default)]

\* Settings.get(key, default): [err, values, ret]
Settings_get(vals, f, path, key, default) ==
    GetLoaded(load_values(vals, f, path), key, default)

SaveValues(d, f, path, fds) ==
    [err |-> "", values |-> Some(d), fs |-> write_file(f, path, dumps(d), fds)]

SetLoaded(l, f, path, key, value, fds) ==
    IF l.err # "" THEN [err |-> l.err, values |-> l.values, fs |-> f]
    ELSE SaveValues(DictSet(Get(l.values), key, value), f, path, fds)

\* Settings.set(key, value) run without another process in between: [err, values, fs]
Settings_set(vals, f, path, key, value, fds) ==
    SetLoaded(load_values(vals, f, path), f, path, key, value, fds)

----------------------------------------------------------------------------
(* parse_args *)

DefaultApiKeyName ==
    <<"d", "e", "f", "a", "u", "l", "t", "-", "a", "p", "i", "-", "k", "e", "y">>

\* '{}@{}'.format(getpass.getuser(), socket.gethostname()) of the model's one host
DefaultApplication == <<"m", "e", "@", "h", "o", "s", "t">>

NoArgv ==
    [pos |-> <<>>, application |-> None, url |-> None, priority |-> None,
     api_key |-> None, set_api_key |-> None]

NoArgs ==
    [event |-> None, description |-> None, application |-> None, url |-> None,
     priority |-> 0, api_key |-> None, set_api_key |-> None]

OptMapArg(o) == IF IsNone(o) THEN None ELSE Some(api_argument_type(Get(o)))
OptMapUrl(o) == IF IsNone(o) THEN None ELSE Some(url_type(Get(o)))
OptKeyErr(o) == IF IsNone(o) THEN "" ELSE api_key_type(Get(o)).err

\* parser.parse_args(): the two optional positionals fill event, then
\* description; each given value goes through its type; --priority defaults
\* to 0.  A UserError raised by a type is not one argparse catches.
argparse_parse_args(a) ==
    IF OptKeyErr(a.api_key) # "" \/ OptKeyErr(a.set_api_key) # ""
    THEN [err |-> "InvalidApiKey", args |-> NoArgs]
    ELSE [err |-> "",
          args |-> [event |-> IF Len(a.pos) >= 1
                              THEN Some(api_argument_type(a.pos[1])) ELSE None,
                    description |-> IF Len(a.pos) >= 2
                                    THEN Some(api_argument_type(a.pos[2])) ELSE None,
                    application |-> OptMapArg(a.application),
                    url |-> OptMapUrl(a.url),
                    priority |-> IF IsNone(a.priority) THEN 0 ELSE Get(a.priority),
                    api_key |-> a.api_key,
                    set_api_key |-> a.set_api_key]]

\* "If no event is given, the description is actually stored in event."
\* if args.description is None: the description is what event holds
\* (description_from_event_kept: without the line args.event = None)
description_from_event_kept(n) ==
    IF IsNone(n.description) THEN [n EXCEPT !.description = n.event] ELSE n

description_from_event(n) ==
    IF IsNone(n.description)
    THEN [n EXCEPT !.description = n.event, !.event = None]
    ELSE n

\* if args.event is None: args.event = args.url (the caller has found a url)
positionals(n) ==
    description_from_event(IF IsNone(n.event) THEN [n EXCEPT !.event = n.url] ELSE n)

\* the condition under which --set-api-key raises the mutual-exclusion error
set_api_key_conflict(n) ==
    \/ ~IsNone(n.event)
    \/ ~IsNone(n.description)
    \/ ~IsNone(n.application)
    \/ ~IsNone(n.url)
    \/ n.priority # 0
    \/ ~IsNone(n.api_key)

\* if not (-2 <= args.priority <= 2)
check_priority(n) ==
    IF ~(-2 <= n.priority /\ n.priority <= 2)
    THEN [err |-> "InvalidPriority", args |-> n]
    ELSE [err |-> "", args |-> n]

\* the checks of parse_args on the namespace argparse returned
validate(n) ==
    IF IsNone(n.set_api_key) THEN
        IF IsNone(n.event) /\ IsNone(n.url)
        THEN [err |-> "DescriptionMissing", args |-> n]
        ELSE check_priority(positionals(n))
    ELSE IF set_api_key_conflict(n)
    THEN [err |-> "MutualExclusion", args |-> n]
    ELSE [err |-> "", args |-> n]

Validated(r) == IF r.err # "" THEN r ELSE validate(r.args)

parse_args(a) == Validated(argparse_parse_args(a))

----------------------------------------------------------------------------
(* main *)

\* str(value) of a stored JSON value, as the form encoding sends it
PyStr(v) ==
    CASE v.t = "str" -> v.s
      [] v.t = "int" -> DumpInt(v.n)
      [] v.t = "bool" -> IF v.n = 1 THEN <<"T", "r", "u", "e">>
                         ELSE <<"F", "a", "l", "s", "e">>
      [] v.t = "null" -> <<"N", "o", "n", "e">>

\* dict(iter_arguments())
iter_arguments(a) ==
    [apikey |-> a.api_key,
     application |-> IF IsNone(a.application) THEN DefaultApplication
                     ELSE Get(a.application),
     url |-> a.url,
     event |-> a.event,
     description |-> IF ~IsNone(a.description) /\ Get(a.description) # <<>>
                     THEN a.description ELSE None,
     priority |-> IF a.priority # 0 THEN Some(a.priority) ELSE None]

\* where main continues once settings.set has returned: it is the last
\* statement of the else branch
\* (after_set_falls_through: the notification code not under the if)
after_set_falls_through == "post"

after_set == "done"

----------------------------------------------------------------------------
(* One invocation of the script, statement by statement *)

\* the process ends: its open file is closed by the system
Terminate(p, e, f) ==
    /\ pc' = [pc EXCEPT ![p] = "done"]
    /\ err' = [err EXCEPT ![p] = e]
    /\ fd' = [fd EXCEPT ![p] = 0]
    /\ buffered' = [buffered EXCEPT ![p] = FALSE]
    /\ fs' = Reclaim(f, [fd EXCEPT ![p] = 0])

\* the shell starts the script with the command line a
Invoke(p, a) ==
    /\ pc[p] = "idle"
    /\ pc' = [pc EXCEPT ![p] = "parse_args"]
    /\ argv' = [argv EXCEPT ![p] = a]
    /\ UNCHANGED <<args, values, data, fd, buffered, err, nPost, nSet, request, fs,
                   lastOp>>

\* the process is gone: nothing of it remains but what it left in the file system
Exit(p) ==
    /\ pc[p] = "done"
    /\ pc' = [pc EXCEPT ![p] = "idle"]
    /\ argv' = [argv EXCEPT ![p] = NoArgv]
    /\ args' = [args EXCEPT ![p] = NoArgs]
    /\ values' = [values EXCEPT ![p] = None]
    /\ data' = [data EXCEPT ![p] = <<>>]
    /\ err' = [err EXCEPT ![p] = ""]
    /\ nPost' = [nPost EXCEPT ![p] = 0]
    /\ nSet' = [nSet EXCEPT ![p] = 0]
    /\ request' = [request EXCEPT ![p] = None]
    /\ UNCHANGED <<fd, buffered, fs, lastOp>>

Parsed(p, r) ==
    IF r.err # ""
    THEN /\ Terminate(p, r.err, fs)
         /\ UNCHANGED args
    ELSE /\ pc' = [pc EXCEPT ![p] = "main"]
         /\ args' = [args EXCEPT ![p] = r.args]
         /\ UNCHANGED <<err, fd, buffered, fs>>

\* script_main: parse_args(), a UserError ends the script with status 1
ParseArgs(p) ==
    /\ pc[p] = "parse_args"
    /\ Parsed(p, parse_args(argv[p]))
    /\ UNCHANGED <<argv, values, data, nPost, nSet, request, lastOp>>

\* main, --set-api-key not given: the API key of the command line or the
\* stored default
\* api_key = settings.get('default-api-key'); if api_key is None: raise
DefaultKey(p, g) ==
    IF g.err # ""
    THEN /\ Terminate(p, g.err, fs)
         /\ UNCHANGED <<args, values>>
    ELSE IF g.ret = JNull
    THEN /\ Terminate(p, "ApiKeyMandatory", fs)
         /\ values' = [values EXCEPT ![p] = g.values]
         /\ UNCHANGED args
    ELSE /\ pc' = [pc EXCEPT ![p] = "post"]
         /\ values' = [values EXCEPT ![p] = g.values]
         /\ args' = [args EXCEPT ![p].api_key = Some(PyStr(g.ret))]
         /\ UNCHANGED <<err, fd, buffered, fs>>

MainNotify(p) ==
    /\ pc[p] = "main"
    /\ IsNone(args[p].set_api_key)
    /\ IF ~IsNone(args[p].api_key)
       THEN /\ pc' = [pc EXCEPT ![p] = "post"]
            /\ UNCHANGED <<args, values, err, fd, buffered, fs>>
       ELSE DefaultKey(p, Settings_get(values[p], fs, SettingsPath,
                                       DefaultApiKeyName, JNull))
    /\ UNCHANGED <<argv, data, nPost, nSet, request, lastOp>>

\* requests.post(url, dict(iter_arguments())): the request goes out
Post(p) ==
    /\ pc[p] = "post"
    /\ request' = [request EXCEPT ![p] = Some(iter_arguments(args[p]))]
    /\ nPost' = [nPost EXCEPT ![p] = nPost[p] + 1]
    /\ pc' = [pc EXCEPT ![p] = "response"]
    /\ UNCHANGED <<argv, args, values, data, fd, buffered, err, nSet, fs, lastOp>>

\* the response arrives: if not response.ok, a UserError
Response(p) ==
    /\ pc[p] = "response"
    /\ \E ok \in BOOLEAN : Terminate(p, IF ok THEN "" ELSE "ServerError", fs)
    /\ UNCHANGED <<argv, args, values, data, nPost, nSet, request, lastOp>>

\* main, --set-api-key given: settings.set up to the call of write_file
\* self._values[key] = value, and _save_values up to the call of write_file
Assigned(p, d) ==
    /\ values' = [values EXCEPT ![p] = Some(d)]
    /\ data' = [data EXCEPT ![p] = dumps(d)]
    /\ nSet' = [nSet EXCEPT ![p] = nSet[p] + 1]
    /\ pc' = [pc EXCEPT ![p] = "wf_exists"]
    /\ UNCHANGED <<err, fd, buffered, fs>>

SetKey(p, l) ==
    IF l.err # ""
    THEN /\ Terminate(p, l.err, fs)
         /\ UNCHANGED <<values, data, nSet>>
    ELSE Assigned(p, DictSet(Get(l.values), DefaultApiKeyName,
                             JStr(Get(args[p].set_api_key))))

MainSet(p) ==
    /\ pc[p] = "main"
    /\ ~IsNone(args[p].set_api_key)
    /\ SetKey(p, load_values(values[p], fs, SettingsPath))
    /\ UNCHANGED <<argv, args, nPost, request, lastOp>>

\* write_file: if not os.path.exists(dir)
WfExists(p) ==
    /\ pc[p] = "wf_exists"
    /\ pc' = [pc EXCEPT ![p] = IF fs.dir THEN "wf_open" ELSE "wf_makedirs"]
    /\ UNCHANGED <<argv, args, values, data, fd, buffered, err, nPost, nSet, request,
                   fs, lastOp>>

\* write_file: os.makedirs(dir), FileExistsError when it exists by now
WfMakedirs(p) ==
    /\ pc[p] = "wf_makedirs"
    /\ IF fs.dir
       THEN Terminate(p, "FileExistsError", fs)
       ELSE /\ fs' = FsMakedirs(fs)
            /\ pc' = [pc EXCEPT ![p] = "wf_open"]
            /\ UNCHANGED <<err, fd, buffered>>
    /\ UNCHANGED <<argv, args, values, data, nPost, nSet, request, lastOp>>

\* write_file: open(temp_path, 'wb')
WfOpen(p) ==
    /\ pc[p] = "wf_open"
    /\ LET o == FsOpenWb(fs, temp_path(SettingsPath), fd)
       IN  /\ fs' = o.fs
           /\ fd' = [fd EXCEPT ![p] = o.fd]
    /\ pc' = [pc EXCEPT ![p] = "wf_write"]
    /\ UNCHANGED <<argv, args, values, data, buffered, err, nPost, nSet, request, lastOp>>

\* write_file: file.write(data) fills the buffer of the file object
WfWrite(p) ==
    /\ pc[p] = "wf_write"
    /\ buffered' = [buffered EXCEPT ![p] = TRUE]
    /\ pc' = [pc EXCEPT ![p] = "wf_close"]
    /\ UNCHANGED <<argv, args, values, data, fd, err, nPost, nSet, request, fs, lastOp>>

\* write_file: the end of the with block flushes the buffer and closes the file
WfClose(p) ==
    /\ pc[p] = "wf_close"
    /\ fs' = Reclaim(FsWrite(fs, fd[p], data[p]), [fd EXCEPT ![p] = 0])
    /\ fd' = [fd EXCEPT ![p] = 0]
    /\ buffered' = [buffered EXCEPT ![p] = FALSE]
    /\ pc' = [pc EXCEPT ![p] = "wf_rename"]
    /\ UNCHANGED <<argv, args, values, data, err, nPost, nSet, request, lastOp>>

\* write_file: os.rename(temp_path, path), FileNotFoundError when the
\* temporary file is no longer there; then main goes on after settings.set
WfRename(p) ==
    /\ pc[p] = "wf_rename"
    /\ IF ~FsExists(fs, temp_path(SettingsPath))
       THEN Terminate(p, "FileNotFoundError", fs)
       ELSE LET f == FsRename(fs, temp_path(SettingsPath), SettingsPath)
            IN  IF after_set = "done"
                THEN Terminate(p, "", f)
                ELSE /\ fs' = Reclaim(f, fd)
                     /\ pc' = [pc EXCEPT ![p] = after_set]
                     /\ UNCHANGED <<err, fd, buffered>>
    /\ UNCHANGED <<argv, args, values, data, nPost, nSet, request, lastOp>>

\* KeyboardInterrupt between two statements: a with block under way closes
\* its file, which flushes what file.write has buffered; exit status 2
Interrupt(p) ==
    /\ pc[p] \notin {"idle", "done"}
    /\ Terminate(p, "Interrupted",
                 IF fd[p] # 0 /\ buffered[p] THEN FsWrite(fs, fd[p], data[p]) ELSE fs)
    /\ UNCHANGED <<argv, args, values, data, nPost, nSet, request, lastOp>>

\* the process is killed between two statements: nothing buffered is written
Kill(p) ==
    /\ pc[p] \notin {"idle", "done"}
    /\ Terminate(p, "Killed", fs)
    /\ UNCHANGED <<argv, args, values, data, nPost, nSet, request, lastOp>>

----------------------------------------------------------------------------
(* Calls made on one Settings object directly (the store specification) *)

NoOp == [op |-> "none", key |-> <<>>, value |-> JNull, before |-> <<>>, fresh |-> FALSE]

Op(op, key, value, before) ==
    [op |-> op, key |-> key, value |-> value, before |-> before, fresh |-> FALSE]

StoreSetResult(p, key, value, before, r) ==
    /\ r.err = ""
    /\ values' = [values EXCEPT ![p] = r.values]
    /\ fs' = r.fs
    /\ lastOp' = Op("set", key, value, before)
    /\ UNCHANGED <<pc, argv, args, data, fd, buffered, err, nPost, nSet, request>>

\* settings.set(key, value); before is the mapping the call found
StoreSet(p, key, value) ==
    StoreSetResult(p, key, value, Get(load_values(values[p], fs, SettingsPath).values),
                   Settings_set(values[p], fs, SettingsPath, key, value, fd))

StoreGetResult(p, key, g) ==
    /\ g.err = ""
    /\ values' = [values EXCEPT ![p] = g.values]
    /\ lastOp' = Op("get", key, g.ret, Get(g.values))
    /\ UNCHANGED <<pc, argv, args, data, fd, buffered, err, nPost, nSet, request, fs>>

\* settings.get(key), the default being None
StoreGet(p, key) ==
    StoreGetResult(p, key, Settings_get(values[p], fs, SettingsPath, key, JNull))

\* Settings(path): a new object on the same path, nothing loaded
StoreNew(p) ==
    /\ ~IsNone(values[p])
    /\ values' = [values EXCEPT ![p] = None]
    /\ lastOp' = [lastOp EXCEPT !.fresh = TRUE]
    /\ UNCHANGED <<pc, argv, args, data, fd, buffered, err, nPost, nSet, request, fs>>

----------------------------------------------------------------------------
(* Inputs *)

ValidKey == Rep("a", KeyLen)
KeyThenNewline == ValidKey \o <<"\n">>
ShortKey == Rep("a", KeyLen - 1)
LongKey == Rep("a", KeyLen + 1)
NonHexKey == Rep("a", KeyLen - 1) \o <<"g">>
UpperKey == Rep("a", KeyLen - 1) \o <<"A">>

Texts == {<<"0">>, <<"x">>}

OptTexts == {None} \cup {Some(t) : t \in Texts}

PosInputs == {<<>>} \cup {<<t>> : t \in Texts} \cup {<<t, u>> : t, u \in Texts}

PriorityInputs ==
    {None} \cup {Some(n) : n \in (0 - MaxPriorityInput)..MaxPriorityInput}

ApiKeyInputs ==
    {None, Some(ValidKey), Some(KeyThenNewline), Some(ShortKey), Some(LongKey),
     Some(UpperKey), Some(NonHexKey)}

SetApiKeyInputs == {None, Some(ValidKey), Some(KeyThenNewline), Some(UpperKey)}

CliArgv ==
    [pos : PosInputs, application : OptTexts, url : OptTexts,
     priority : PriorityInputs, api_key : ApiKeyInputs, set_api_key : SetApiKeyInputs]

\* prowl --set-api-key=<key> and nothing else
SetArgv == {[NoArgv EXCEPT !.set_api_key = Some(k)] : k \in {ValidKey, KeyThenNewline}}

StoreKeys == {<<"k">>, <<"\"">>}

StoreValues ==
    {JStr(<<"\"", "\\", "\n">>), JNull, JBool(TRUE)}
    \cup {JInt(n) : n \in (0 - MaxStoredInt)..MaxStoredInt}

----------------------------------------------------------------------------
(* Specifications *)

Init ==
    /\ pc = [p \in Procs |-> "idle"]
    /\ argv = [p \in Procs |-> NoArgv]
    /\ args = [p \in Procs |-> NoArgs]
    /\ values = [p \in Procs |-> None]
    /\ data = [p \in Procs |-> <<>>]
    /\ fd = [p \in Procs |-> 0]
    /\ buffered = [p \in Procs |-> FALSE]
    /\ err = [p \in Procs |-> ""]
    /\ nPost = [p \in Procs |-> 0]
    /\ nSet = [p \in Procs |-> 0]
    /\ request = [p \in Procs |-> None]
    /\ fs = EmptyFs
    /\ lastOp = NoOp

CliInvoke(p) == pc[p] = "idle" /\ \E a \in CliArgv : Invoke(p, a)

SetInvoke(p) == pc[p] = "idle" /\ \E a \in SetArgv : Invoke(p, a)

\* the user runs one invocation after the other
User == CHOOSE p \in Procs : TRUE

Next ==
    \/ CliInvoke(User)
    \/ ParseArgs(User)
    \/ MainNotify(User)
    \/ Post(User)
    \/ Response(User)
    \/ MainSet(User)
    \/ WfExists(User)
    \/ WfMakedirs(User)
    \/ WfOpen(User)
    \/ WfWrite(User)
    \/ WfClose(User)
    \/ WfRename(User)
    \/ Exit(User)

Spec == Init /\ [][Next]_vars

\* one --set-api-key after the other, each of which may be interrupted or
\* killed between any two statements
NextInterrupt ==
    \/ SetInvoke(User)
    \/ ParseArgs(User)
    \/ MainSet(User)
    \/ WfExists(User)
    \/ WfMakedirs(User)
    \/ WfOpen(User)
    \/ WfWrite(User)
    \/ WfClose(User)
    \/ WfRename(User)
    \/ Interrupt(User)
    \/ Kill(User)
    \/ Exit(User)

SpecInterrupt == Init /\ [][NextInterrupt]_vars

\* invocations of --set-api-key running at the same time
NextConc ==
    \E p \in Procs :
        \/ SetInvoke(p)
        \/ ParseArgs(p)
        \/ MainSet(p)
        \/ WfExists(p)
        \/ WfMakedirs(p)
        \/ WfOpen(p)
        \/ WfWrite(p)
        \/ WfClose(p)
        \/ WfRename(p)
        \/ Exit(p)

SpecConc == Init /\ [][NextConc]_vars

\* get and set calls on Settings objects of one path, one after the other
NextStore ==
    \/ \E key \in StoreKeys, value \in StoreValues : StoreSet(User, key, value)
    \/ \E key \in StoreKeys : StoreGet(User, key)
    \/ StoreNew(User)

SpecStore == Init /\ [][NextStore]_vars

----------------------------------------------------------------------------
(* Properties *)

\* what the claims call a well-formed key: exactly 40 lowercase hexadecimal digits
IsHex40(k) == Len(k) = KeyLen /\ \A i \in 1..Len(k) : k[i] \in HexChars

\* the content of the settings file, None when there is no such file
TargetContent ==
    IF FsExists(fs, SettingsPath) THEN Some(FsRead(fs, SettingsPath)) ELSE None

\* the serialization of a store that holds the default key k and nothing else
KeyFile(k) == dumps(<<Item(DefaultApiKeyName, JStr(k))>>)

\* an argument or option other than --set-api-key is on the command line
OtherGiven(a) ==
    \/ a.pos # <<>>
    \/ ~IsNone(a.application)
    \/ ~IsNone(a.url)
    \/ ~IsNone(a.priority)
    \/ ~IsNone(a.api_key)

SuppliedKeys(a) ==
    {Get(o) : o \in {x \in {a.api_key, a.set_api_key} : ~IsNone(x)}}

\* the errors raised before main reaches the POST or the settings.set
ValidationErrors ==
    {"InvalidApiKey", "DescriptionMissing", "InvalidPriority", "MutualExclusion",
     "ApiKeyMandatory"}

C2_SetApiKeyExcludesAll ==
    (/\ ~IsNone(argv[User].set_api_key)
     /\ OtherGiven(argv[User])
     /\ \A k \in SuppliedKeys(argv[User]) : api_key_type(k).err = "")
    => /\ nSet[User] = 0
       /\ nPost[User] = 0
       /\ pc[User] = "done" => err[User] = "MutualExclusion"

\* C3: while --set-api-key invocations run one after the other and are
\* interrupted or killed at any statement, the settings file is absent or
\* holds one complete serialization, and its content changes only at the
\* rename, to the complete new serialization.
C3_TargetOldOrNew ==
    /\ [](TargetContent = None \/ \E k \in {ValidKey, KeyThenNewline} :
                                      TargetContent = Some(KeyFile(k)))
    /\ [][TargetContent' # TargetContent =>
            /\ pc[User] = "wf_rename"
            /\ TargetContent' = Some(dumps(Get(values[User])))]_vars

C3_Witness ==
    /\ pc[User] = "done"
    /\ err[User] = "Killed"
    /\ FsExists(fs, temp_path(SettingsPath))
    /\ FsRead(fs, temp_path(SettingsPath)) = <<>>
    /\ data[User] = KeyFile(KeyThenNewline)
    /\ TargetContent = Some(KeyFile(ValidKey))

\* C4: with --set-api-key invocations running at the same time, the
\* settings file, whenever it exists, holds the complete serialization one
\* of them wrote.
C4_NeverPartial ==
    TargetContent # None =>
        \E k \in {ValidKey, KeyThenNewline} : TargetContent = Some(KeyFile(k))

\* C5: after set(key, value) on a store, get(key) on that store and on a
\* new Settings object of the same path returns value, and get of every
\* other key returns what the store held for it before the set.
C5_SetThenGet ==
    lastOp.op = "set" =>
        \A k \in StoreKeys :
            \A vals \in {values[User], None} :
                Settings_get(vals, fs, SettingsPath, k, JNull).ret
                    = IF k = lastOp.key THEN lastOp.value
                      ELSE DictGet(lastOp.before, k, JNull)

C5_Witness ==
    /\ lastOp.op = "set"
    /\ lastOp.fresh
    /\ values[User] = None
    /\ lastOp.value = JStr(<<"\"", "\\", "\n">>)
    /\ \E k \in StoreKeys : k # lastOp.key /\ DictGet(lastOp.before, k, JNull) = JInt(-1)

\* the "0" workaround as the claims state it
ZeroRewritten(t) == IF t = <<"0">> THEN <<"0", " ">> ELSE t

\* C6: for a notification, no positional and a --url make the url the
\* description and leave event unset; no positional and no --url fail
\* validation (description missing); one positional is the description and
\* event is unset; two are event and description.  The request carries them so.
C6_Positionals ==
    IsNone(argv[User].set_api_key) =>
        /\ pc[User] \in {"main", "post", "response"} =>
              /\ Len(argv[User].pos) = 0 =>
                    /\ ~IsNone(argv[User].url)
                    /\ args[User].description = argv[User].url
                    /\ IsNone(args[User].event)
              /\ Len(argv[User].pos) = 1 =>
                    /\ args[User].description = Some(ZeroRewritten(argv[User].pos[1]))
                    /\ IsNone(args[User].event)
              /\ Len(argv[User].pos) = 2 =>
                    /\ args[User].event = Some(ZeroRewritten(argv[User].pos[1]))
                    /\ args[User].description = Some(ZeroRewritten(argv[User].pos[2]))
        /\ ~IsNone(request[User]) =>
              /\ Get(request[User]).event = args[User].event
              /\ Get(request[User]).description = args[User].description
        /\ (/\ pc[User] = "done"
            /\ Len(argv[User].pos) = 0
            /\ IsNone(argv[User].url))
           => /\ nPost[User] = 0
              /\ err[User] \in {"DescriptionMissing", "InvalidApiKey"}
              /\ (\A k \in SuppliedKeys(argv[User]) : api_key_type(k).err = "")
                    => err[User] = "DescriptionMissing"

C6_Witness ==
    /\ pc[User] = "response"
    /\ argv[User].pos = <<<<"x">>, <<"0">>>>
    /\ Get(request[User]).event = Some(<<"x">>)
    /\ Get(request[User]).description = Some(<<"0", " ">>)

\* C7: the apikey of every request sent, and every default-api-key stored,
\* is exactly 40 lowercase hexadecimal digits.
C7_KeysWellFormed ==
    /\ ~IsNone(request[User]) =>
          /\ ~IsNone(Get(request[User]).apikey)
          /\ IsHex40(Get(Get(request[User]).apikey))
    /\ TargetContent # None =>
          \E k \in {x \in SuppliedKeys(argv[User]) \cup {ValidKey} : IsHex40(x)} :
              TargetContent = Some(KeyFile(k))

\* C8: in every request sent neither event nor description is the bare "0".
C8_NoBareZero ==
    ~IsNone(request[User]) =>
        /\ Get(request[User]).event # Some(<<"0">>)
        /\ Get(request[User]).description # Some(<<"0">>)

\* C9: once the arguments are parsed, the invocation has failed with the
\* invalid-key error exactly when a key on the command line is not 40
\* lowercase hexadecimal digits.
C9_ValidatorExact ==
    pc[User] \notin {"idle", "parse_args"} =>
        (err[User] = "InvalidApiKey"
            <=> \E k \in SuppliedKeys(argv[User]) : ~IsHex40(k))

\* C10 (as claimed): the application and url fields of a request sent equal
\* what the user gave for --application and --url.
C10_ApplicationAndUrlUnchanged ==
    ~IsNone(request[User]) =>
        /\ ~IsNone(argv[User].application) =>
              Get(request[User]).application = Get(argv[User].application)
        /\ Get(request[User]).url = argv[User].url

\* C10 (amended): the url field of a request sent and an API key given with
\* --api-key equal what the user gave; the application field equals what
\* the user gave for --application except that "0" has become "0 ".
C10_UrlAndKeyUnchanged ==
    ~IsNone(request[User]) =>
        /\ Get(request[User]).url = argv[User].url
        /\ ~IsNone(argv[User].api_key) => Get(request[User]).apikey = argv[User].api_key
        /\ ~IsNone(argv[User].application) =>
              Get(request[User]).application = ZeroRewritten(Get(argv[User].application))

C10_Witness ==
    /\ pc[User] = "response"
    /\ argv[User].url = Some(<<"0">>)
    /\ argv[User].application = Some(<<"0">>)
    /\ Get(request[User]).url = Some(<<"0">>)
    /\ Get(request[User]).application = <<"0", " ">>

====
